---- MODULE Spec2Model ----
(***************************************************************************)
(* Model of quiz_yaml_converter (converter.go).                           *)
(*                                                                         *)
(* A Go string is modelled as a sequence of characters, each character a  *)
(* short TLA+ string.  The corner brackets U+300C and U+300D are written  *)
(* "[" and "]" here, the full-width slash U+FF0F is written "/".          *)
(* strings.HasPrefix, strings.HasSuffix and strings.Contains compare      *)
(* bytes; on well-formed UTF-8 a byte match of a whole character is a     *)
(* character match, so the predicates are modelled on characters.         *)
(***************************************************************************)
EXTENDS Naturals, Sequences, FiniteSets

VARIABLES
    item, quoted, requoted, calls,      \* calls of AddQuotesIfNeeded
    items, suffix, section, sectionOp,  \* calls of formatCriteriaSection
    criteria, formatted, lastOp,        \* calls of FormatCriteria
    pc, yamlFile, canCreate, data,      \* a run of ConvertYAMLToCSV
    csvFile, writer, idx, err,
    result, runs,                       \* runs of ValidateYAMLFile
    mpc, flags, tmplFile, outFile,      \* a run of main, and of Convert
    outputFilePath, templateFilePath, format,
    stdout, stderr, exitCode

quotesVars == <<item, quoted, requoted, calls>>

sectionVars == <<items, suffix, section, sectionOp>>

criteriaVars == <<criteria, formatted, lastOp>>

csvVars == <<pc, yamlFile, canCreate, data, csvFile, writer, idx, err>>

validateVars == <<result, runs>>

mainVars == <<mpc, flags, tmplFile, outFile, outputFilePath, templateFilePath,
              format, stdout, stderr, exitCode>>

vars == <<quotesVars, sectionVars, criteriaVars, csvVars, validateVars, mainVars>>

(* Bounds *)

\* longest input string handed to AddQuotesIfNeeded
MaxLen == 4

\* longest list handed to formatCriteriaSection, and its longest element
MaxItems == 2

MaxItemLen == 2

\* most list elements a criteria map handed to FormatCriteria holds in all
MaxCritItems == 3

\* most records in the YAML file
MaxRecords == 2

\* most runs of ValidateYAMLFile over one YAML file
MaxRuns == 2

\* longest output path handed to DetectOutputFormat
MaxPathLen == 5

(* Characters and strings *)

OpenBracket == <<"[">>

CloseBracket == <<"]">>

\* the characters input strings are built from: both brackets, a letter, a blank
Alphabet == {"[", "]", "a", " "}

StringsUpTo(n) == UNION {[1..k -> Alphabet] : k \in 0..n}

\* strings.HasPrefix
HasPrefix(s, prefix) ==
    /\ Len(s) >= Len(prefix)
    /\ SubSeq(s, 1, Len(prefix)) = prefix

\* strings.HasSuffix
HasSuffix(s, sfx) ==
    /\ Len(s) >= Len(sfx)
    /\ SubSeq(s, Len(s) - Len(sfx) + 1, Len(s)) = sfx

\* strings.Contains
Contains(s, substr) ==
    \E i \in 1..(Len(s) + 1) :
        /\ i + Len(substr) - 1 <= Len(s)
        /\ SubSeq(s, i, i + Len(substr) - 1) = substr

(* AddQuotesIfNeeded *)

(* Variants of AddQuotesIfNeeded with one plausible slip each; the        *)
(* properties below are re-checked against them.                          *)

\* slip: the strings.Contains test of lines 63-64 is missing
AddQuotes_NoContainsCheck(text) ==
    IF HasPrefix(text, OpenBracket) /\ HasSuffix(text, CloseBracket)
    THEN text
    ELSE IF HasPrefix(text, OpenBracket)
    THEN text \o CloseBracket
    ELSE IF ~HasPrefix(text, OpenBracket) /\ HasSuffix(text, CloseBracket)
    THEN OpenBracket \o text
    ELSE OpenBracket \o text \o CloseBracket

\* slip: the branch of lines 71-73 is missing
AddQuotes_NoSuffixBranch(text) ==
    IF HasPrefix(text, OpenBracket) /\ HasSuffix(text, CloseBracket)
    THEN text
    ELSE IF HasPrefix(text, OpenBracket)
    THEN IF Contains(text, CloseBracket)
         THEN text
         ELSE text \o CloseBracket
    ELSE OpenBracket \o text \o CloseBracket

\* slip: blank input is special-cased (trimmed to nothing and returned)
AddQuotes_BlankSpecialCased(text) ==
    IF \A i \in 1..Len(text) : text[i] = " "
    THEN <<>>
    ELSE IF HasPrefix(text, OpenBracket) /\ HasSuffix(text, CloseBracket)
    THEN text
    ELSE IF HasPrefix(text, OpenBracket)
    THEN IF Contains(text, CloseBracket)
         THEN text
         ELSE text \o CloseBracket
    ELSE IF ~HasPrefix(text, OpenBracket) /\ HasSuffix(text, CloseBracket)
    THEN OpenBracket \o text
    ELSE OpenBracket \o text \o CloseBracket

\* slip: the tests for brackets already present are missing
AddQuotes_AlwaysWrap(text) ==
    OpenBracket \o text \o CloseBracket

\* slip: the last return adds the open bracket alone
AddQuotes_NoCloseOnWrap(text) ==
    IF HasPrefix(text, OpenBracket) /\ HasSuffix(text, CloseBracket)
    THEN text
    ELSE IF HasPrefix(text, OpenBracket)
    THEN IF Contains(text, CloseBracket)
         THEN text
         ELSE text \o CloseBracket
    ELSE IF ~HasPrefix(text, OpenBracket) /\ HasSuffix(text, CloseBracket)
    THEN OpenBracket \o text
    ELSE OpenBracket \o text

AddQuotesIfNeeded(text) ==
    IF HasPrefix(text, OpenBracket) /\ HasSuffix(text, CloseBracket)
    THEN text
    ELSE IF HasPrefix(text, OpenBracket)
    THEN IF Contains(text, CloseBracket)
         THEN text
         ELSE text \o CloseBracket
    ELSE IF ~HasPrefix(text, OpenBracket) /\ HasSuffix(text, CloseBracket)
    THEN OpenBracket \o text
    ELSE OpenBracket \o text \o CloseBracket

(* strings.Join *)

RECURSIVE Join(_, _)
Join(elems, sep) ==
    IF Len(elems) = 0 THEN <<>>
    ELSE IF Len(elems) = 1 THEN elems[1]
    ELSE elems[1] \o sep \o Join(Tail(elems), sep)

(* formatCriteriaSection *)

\* slip: the len(items) == 0 test of lines 81-83 is missing
formatCriteriaSection_NoEmptyTest(list, sfx) ==
    Join([i \in 1..Len(list) |-> AddQuotesIfNeeded(list[i])], <<>>) \o sfx

formatCriteriaSection(list, sfx) ==
    IF Len(list) = 0
    THEN <<>>
    ELSE LET formattedItems == [i \in 1..Len(list) |-> AddQuotesIfNeeded(list[i])]
         IN  Join(formattedItems, <<>>) \o sfx

(* FormatCriteria *)

\* the suffix of the ng section, U+306F U+8AA4 U+7B54
SuffixNg == <<"ha", "go", "tou">>

\* the suffix of the repeat section, U+306F U+3082 U+3046 U+4E00 U+5EA6
SuffixRepeat == <<"ha", "mo", "u", "ichi", "do">>

\* the separator of the sections, U+FF0F
Separator == <<"/">>

(* A map[string][]string is a nil flag and the entries, listed in the     *)
(* order a range over the map would visit them in this run; the keys of   *)
(* the entries are distinct.                                               *)

NilMap == [nil |-> TRUE, entries |-> <<>>]

MakeMap(entries) == [nil |-> FALSE, entries |-> entries]

\* the second result of m[k]
MapHas(m, k) == \E i \in 1..Len(m.entries) : m.entries[i].key = k

\* the first result of m[k]: the zero value, an empty slice, for a missing key
MapGet(m, k) ==
    IF MapHas(m, k)
    THEN m.entries[CHOOSE i \in 1..Len(m.entries) : m.entries[i].key = k].value
    ELSE <<>>

\* slip: the sections are built by ranging over the map
RECURSIVE RangeSections(_)
RangeSections(entries) ==
    IF Len(entries) = 0 THEN <<>>
    ELSE LET e == entries[1]
             sfx == IF e.key = "ng" THEN SuffixNg
                    ELSE IF e.key = "repeat" THEN SuffixRepeat
                    ELSE <<>>
             part == IF e.key \in {"ok", "ng", "repeat"} /\ Len(e.value) > 0
                     THEN <<formatCriteriaSection(e.value, sfx)>>
                     ELSE <<>>
         IN  part \o RangeSections(Tail(entries))

FormatCriteria_ByRange(crit) ==
    Join(RangeSections(crit.entries), Separator)

\* slip: the len(...) > 0 tests of lines 99, 104 and 109 are missing
FormatCriteria_NoSkip(crit) ==
    LET parts1 == IF MapHas(crit, "ok")
                  THEN <<formatCriteriaSection(MapGet(crit, "ok"), <<>>)>>
                  ELSE <<>>
        parts2 == IF MapHas(crit, "ng")
                  THEN Append(parts1, formatCriteriaSection(MapGet(crit, "ng"), SuffixNg))
                  ELSE parts1
        parts3 == IF MapHas(crit, "repeat")
                  THEN Append(parts2, formatCriteriaSection(MapGet(crit, "repeat"), SuffixRepeat))
                  ELSE parts2
    IN  Join(parts3, Separator)

\* slip: a key that is not ok, ng or repeat gets a section of its own
FormatCriteria_OtherKeys(crit) ==
    LET ok == MapGet(crit, "ok")
        ng == MapGet(crit, "ng")
        repeat == MapGet(crit, "repeat")
        hint == MapGet(crit, "hint")
        parts1 == IF MapHas(crit, "ok") /\ Len(ok) > 0
                  THEN <<formatCriteriaSection(ok, <<>>)>>
                  ELSE <<>>
        parts2 == IF MapHas(crit, "ng") /\ Len(ng) > 0
                  THEN Append(parts1, formatCriteriaSection(ng, SuffixNg))
                  ELSE parts1
        parts3 == IF MapHas(crit, "repeat") /\ Len(repeat) > 0
                  THEN Append(parts2, formatCriteriaSection(repeat, SuffixRepeat))
                  ELSE parts2
        parts4 == IF MapHas(crit, "hint") /\ Len(hint) > 0
                  THEN Append(parts3, formatCriteriaSection(hint, <<>>))
                  ELSE parts3
    IN  Join(parts4, Separator)

FormatCriteria(crit) ==
    LET ok == MapGet(crit, "ok")
        ng == MapGet(crit, "ng")
        repeat == MapGet(crit, "repeat")
        parts1 == IF MapHas(crit, "ok") /\ Len(ok) > 0
                  THEN <<formatCriteriaSection(ok, <<>>)>>
                  ELSE <<>>
        parts2 == IF MapHas(crit, "ng") /\ Len(ng) > 0
                  THEN Append(parts1, formatCriteriaSection(ng, SuffixNg))
                  ELSE parts1
        parts3 == IF MapHas(crit, "repeat") /\ Len(repeat) > 0
                  THEN Append(parts2, formatCriteriaSection(repeat, SuffixRepeat))
                  ELSE parts2
    IN  Join(parts3, Separator)

(* strings.TrimSpace *)

\* the white space characters of the inputs: the blank and the tab
WhiteSpace == {" ", "tab"}

RECURSIVE TrimLeft(_)
TrimLeft(s) ==
    IF Len(s) > 0 /\ s[1] \in WhiteSpace THEN TrimLeft(Tail(s)) ELSE s

RECURSIVE TrimRight(_)
TrimRight(s) ==
    IF Len(s) > 0 /\ s[Len(s)] \in WhiteSpace
    THEN TrimRight(SubSeq(s, 1, Len(s) - 1))
    ELSE s

TrimSpace(s) == TrimRight(TrimLeft(s))

(* validateQuizItem.  An error message is the record of its parts: the    *)
(* number of the question in the prefix, the field the message names, the *)
(* criteria key and the index of the element in it.                       *)

Message(index, field, key, j) ==
    [index |-> index, field |-> field, key |-> key, j |-> j]

\* the message of ValidateYAMLFile for a file that does not exist
MsgNoFile == Message(0, "file does not exist", "", 0)

\* the message of ValidateYAMLFile for a file that cannot be loaded
MsgLoadError == Message(0, "load error", "", 0)

\* the message of ValidateYAMLFile for a file without quiz data
MsgNoData == Message(0, "no quiz data", "", 0)

\* the loop over a list, from its j-th element (counted from 0) on: one
\* message for each element that is blank
RECURSIVE BlankElements(_, _, _, _, _)
BlankElements(list, j, index, field, key) ==
    IF j >= Len(list) THEN <<>>
    ELSE (IF TrimSpace(list[j + 1]) = <<>>
          THEN <<Message(index, field, key, j)>>
          ELSE <<>>)
         \o BlankElements(list, j + 1, index, field, key)

validKeys == {"ok", "ng", "repeat"}

\* the range over item.Criteria: one message for each key that is not valid
RECURSIVE InvalidKeys(_, _)
InvalidKeys(entries, index) ==
    IF Len(entries) = 0 THEN <<>>
    ELSE (IF entries[1].key \notin validKeys
          THEN <<Message(index, "invalid criteria key", entries[1].key, 0)>>
          ELSE <<>>)
         \o InvalidKeys(Tail(entries), index)

\* the messages of the criteria field
CriteriaErrors(crit, index) ==
    IF crit.nil THEN <<>>
    ELSE (IF MapHas(crit, "ok")
          THEN BlankElements(MapGet(crit, "ok"), 0, index, "criteria", "ok")
          ELSE <<>>)
         \o (IF MapHas(crit, "ng")
             THEN BlankElements(MapGet(crit, "ng"), 0, index, "criteria", "ng")
             ELSE <<>>)
         \o (IF MapHas(crit, "repeat")
             THEN BlankElements(MapGet(crit, "repeat"), 0, index, "criteria", "repeat")
             ELSE <<>>)
         \o InvalidKeys(crit.entries, index)

\* slip: the function returns at the first message
validateQuizItem_FailFast(rec, index) ==
    LET all == (IF TrimSpace(rec.Question) = <<>>
                THEN <<Message(index, "question", "", 0)>> ELSE <<>>)
               \o (IF TrimSpace(rec.Answer) = <<>>
                   THEN <<Message(index, "answer", "", 0)>> ELSE <<>>)
               \o CriteriaErrors(rec.Criteria, index)
               \o BlankElements(rec.Comments, 0, index, "comments", "")
    IN  IF Len(all) = 0 THEN all ELSE <<all[1]>>

\* slip: the elements of the lists under every key are tested
RECURSIVE AllKeysElements(_, _)
AllKeysElements(entries, index) ==
    IF Len(entries) = 0 THEN <<>>
    ELSE BlankElements(entries[1].value, 0, index, "criteria", entries[1].key)
         \o AllKeysElements(Tail(entries), index)

validateQuizItem_EveryKey(rec, index) ==
    (IF TrimSpace(rec.Question) = <<>>
     THEN <<Message(index, "question", "", 0)>> ELSE <<>>)
    \o (IF TrimSpace(rec.Answer) = <<>>
        THEN <<Message(index, "answer", "", 0)>> ELSE <<>>)
    \o AllKeysElements(rec.Criteria.entries, index)
    \o InvalidKeys(rec.Criteria.entries, index)
    \o BlankElements(rec.Comments, 0, index, "comments", "")

validateQuizItem(rec, index) ==
    (IF TrimSpace(rec.Question) = <<>>
     THEN <<Message(index, "question", "", 0)>> ELSE <<>>)
    \o (IF TrimSpace(rec.Answer) = <<>>
        THEN <<Message(index, "answer", "", 0)>> ELSE <<>>)
    \o CriteriaErrors(rec.Criteria, index)
    \o BlankElements(rec.Comments, 0, index, "comments", "")

(* ValidateYAMLFile.  file is the YAML file; records is what LoadYAMLData *)
(* returns for it in this run, each criteria map in the order the range   *)
(* of validateQuizItem visits it.                                          *)

\* the report ValidateYAMLFile starts from
NewResult == [IsValid |-> TRUE, Errors |-> <<>>, Items |-> 0]

\* the loop over data, from the i-th item on
RECURSIVE ValidateItems(_, _, _)
ValidateItems(res, records, i) ==
    IF i > Len(records) THEN res
    ELSE LET itemErrors == validateQuizItem(records[i], i)
         IN  ValidateItems(IF Len(itemErrors) > 0
                           THEN [res EXCEPT !.IsValid = FALSE,
                                            !.Errors = @ \o itemErrors]
                           ELSE res,
                           records, i + 1)

\* slip: the loop does not set IsValid (line 190 is missing)
RECURSIVE ValidateItems_KeepsValid(_, _, _)
ValidateItems_KeepsValid(res, records, i) ==
    IF i > Len(records) THEN res
    ELSE LET itemErrors == validateQuizItem(records[i], i)
         IN  ValidateItems_KeepsValid(IF Len(itemErrors) > 0
                                      THEN [res EXCEPT !.Errors = @ \o itemErrors]
                                      ELSE res,
                                      records, i + 1)

ValidateYAMLFile_KeepsValid(file, records) ==
    IF file.state = "missing"
    THEN [NewResult EXCEPT !.IsValid = FALSE, !.Errors = Append(@, MsgNoFile)]
    ELSE IF file.state # "valid"
    THEN [NewResult EXCEPT !.IsValid = FALSE, !.Errors = Append(@, MsgLoadError)]
    ELSE LET counted == [NewResult EXCEPT !.Items = Len(records)]
             checked == ValidateItems_KeepsValid(counted, records, 1)
         IN  IF Len(records) = 0
             THEN [checked EXCEPT !.IsValid = FALSE, !.Errors = Append(@, MsgNoData)]
             ELSE checked

\* slip: the test for an empty list of lines 196-199 is missing
ValidateYAMLFile_NoEmptyTest(file, records) ==
    IF file.state = "missing"
    THEN [NewResult EXCEPT !.IsValid = FALSE, !.Errors = Append(@, MsgNoFile)]
    ELSE IF file.state # "valid"
    THEN [NewResult EXCEPT !.IsValid = FALSE, !.Errors = Append(@, MsgLoadError)]
    ELSE LET counted == [NewResult EXCEPT !.Items = Len(records)]
         IN  ValidateItems(counted, records, 1)

ValidateYAMLFile(file, records) ==
    IF file.state = "missing"
    THEN [NewResult EXCEPT !.IsValid = FALSE, !.Errors = Append(@, MsgNoFile)]
    ELSE IF file.state # "valid"
    THEN [NewResult EXCEPT !.IsValid = FALSE, !.Errors = Append(@, MsgLoadError)]
    ELSE LET counted == [NewResult EXCEPT !.Items = Len(records)]
             checked == ValidateItems(counted, records, 1)
         IN  IF Len(records) = 0
             THEN [checked EXCEPT !.IsValid = FALSE, !.Errors = Append(@, MsgNoData)]
             ELSE checked

(* DetectOutputFormat.  A path is a string; "/" is the path separator.    *)

\* filepath.Ext: the suffix of the path from the last dot of its last
\* element on, empty when that element has no dot; i runs down from the end
RECURSIVE ExtFrom(_, _)
ExtFrom(path, i) ==
    IF i < 1 \/ path[i] = "/" THEN <<>>
    ELSE IF path[i] = "." THEN SubSeq(path, i, Len(path))
    ELSE ExtFrom(path, i - 1)

Ext(path) == ExtFrom(path, Len(path))

\* the lower-case letter of a character, for the capitals that occur in paths
LowerChar(c) ==
    CASE c = "C" -> "c"
      [] c = "S" -> "s"
      [] c = "V" -> "v"
      [] OTHER -> c

\* strings.ToLower
ToLower(s) == [n \in 1..Len(s) |-> LowerChar(s[n])]

FormatCSV == "FormatCSV"

FormatTemplate == "FormatTemplate"

\* the extension of a CSV file
CsvExt == <<".", "c", "s", "v">>

\* slip: the extension is compared as it is written
DetectOutputFormat_CaseSensitive(outputFile, templateFile) ==
    IF templateFile # <<>> THEN FormatTemplate
    ELSE IF Ext(outputFile) = CsvExt THEN FormatCSV
    ELSE FormatTemplate

DetectOutputFormat(outputFile, templateFile) ==
    IF templateFile # <<>> THEN FormatTemplate
    ELSE LET ext == ToLower(Ext(outputFile))
         IN  IF ext = CsvExt THEN FormatCSV
             ELSE FormatTemplate

(* Inputs *)

\* the lists of at most n elements of the set S
ListsUpTo(S, n) == UNION {[1..k -> S] : k \in 0..n}

\* the list elements formatCriteriaSection is called with: the strings of
\* brackets and a letter
ItemStrings == ListsUpTo({"[", "]", "a"}, MaxItemLen)

\* the suffixes formatCriteriaSection is called with
Suffixes == {<<>>, SuffixNg, SuffixRepeat}

\* the keys of the criteria maps: the three recognized ones and another
CriteriaKeys == {"ok", "ng", "repeat", "hint"}

\* the list elements of the criteria maps: plain, and a bracketed clause
\* followed by more text
CritElements == {<<"a">>, <<"[", "b", "]", "c">>}

\* the lists under the key that is not ok, ng or repeat: empty, one element
OtherLists == {<<>>, <<<<"h">>>>}

\* the lists under key k of at most budget elements
ListsFor(k, budget) ==
    IF k = "hint"
    THEN {list \in OtherLists : Len(list) <= budget}
    ELSE ListsUpTo(CritElements, budget)

RECURSIVE TotalItems(_)
TotalItems(entries) ==
    IF Len(entries) = 0 THEN 0
    ELSE Len(entries[1].value) + TotalItems(Tail(entries))

\* the sequences of distinct keys
KeyOrders ==
    {ks \in ListsUpTo(CriteriaKeys, Cardinality(CriteriaKeys)) :
        \A i, j \in 1..Len(ks) : i # j => ks[i] # ks[j]}

\* the lists of entries under the keys ks, in that order, that hold at most
\* budget elements in all
RECURSIVE EntriesWithin(_, _)
EntriesWithin(ks, budget) ==
    IF Len(ks) = 0 THEN {<<>>}
    ELSE UNION {{<<[key |-> ks[1], value |-> list]>> \o rest :
                    rest \in EntriesWithin(Tail(ks), budget - Len(list))} :
                   list \in ListsFor(ks[1], budget)}

EntriesOf(ks) == EntriesWithin(ks, MaxCritItems)

\* the criteria maps FormatCriteria is called with: nil, and every map over
\* CriteriaKeys in every iteration order
CriteriaInputs ==
    {NilMap} \cup {MakeMap(e) : e \in UNION {EntriesOf(ks) : ks \in KeyOrders}}

(* The callers of the three functions.  Each specification calls one of   *)
(* them on inputs drawn from bounded sets and leaves the variables of the *)
(* other two alone.                                                        *)

QuotesIdle ==
    /\ item = <<>>
    /\ quoted = <<>>
    /\ requoted = <<>>
    /\ calls = 0

SectionIdle ==
    /\ items = <<>>
    /\ suffix = <<>>
    /\ section = <<>>
    /\ sectionOp = "none"

CriteriaIdle ==
    /\ criteria = NilMap
    /\ formatted = <<>>
    /\ lastOp = "none"

CsvIdle ==
    /\ pc = "idle"
    /\ yamlFile = [state |-> "missing", records |-> <<>>]
    /\ canCreate = FALSE
    /\ data = <<>>
    /\ csvFile = [exists |-> FALSE, rows |-> <<>>]
    /\ writer = <<>>
    /\ idx = 0
    /\ err = "nil"

ValidateIdle ==
    /\ result = NewResult
    /\ runs = 0

\* the flags at their defaults
NoFlags ==
    [parsed |-> TRUE, help |-> FALSE, input |-> <<>>, validate |-> FALSE,
     output |-> <<>>, format |-> "csv", template |-> <<>>]

MainIdle ==
    /\ mpc = "idle"
    /\ flags = NoFlags
    /\ tmplFile = "missing"
    /\ outFile = [exists |-> FALSE, content |-> <<>>]
    /\ outputFilePath = <<>>
    /\ templateFilePath = <<>>
    /\ format = "none"
    /\ stdout = <<>>
    /\ stderr = <<>>
    /\ exitCode = 0

(* AddQuotesIfNeeded: one call on an input, then a second call on the     *)
(* first call's result (a template pipeline addQuotes | addQuotes).       *)

InitQuotes ==
    /\ item \in StringsUpTo(MaxLen)
    /\ quoted = <<>>
    /\ requoted = <<>>
    /\ calls = 0
    /\ SectionIdle
    /\ CriteriaIdle
    /\ CsvIdle
    /\ ValidateIdle
    /\ MainIdle

CallAddQuotes ==
    /\ calls = 0
    /\ quoted' = AddQuotesIfNeeded(item)
    /\ calls' = 1
    /\ UNCHANGED <<item, requoted, sectionVars, criteriaVars, csvVars, validateVars, mainVars>>

CallAddQuotesAgain ==
    /\ calls = 1
    /\ requoted' = AddQuotesIfNeeded(quoted)
    /\ calls' = 2
    /\ UNCHANGED <<item, quoted, sectionVars, criteriaVars, csvVars, validateVars, mainVars>>

NextQuotes ==
    \/ CallAddQuotes
    \/ CallAddQuotesAgain

SpecQuotes == InitQuotes /\ [][NextQuotes]_vars

(* formatCriteriaSection: one call on a list and a suffix.                *)

InitSection ==
    /\ items \in ListsUpTo(ItemStrings, MaxItems)
    /\ suffix \in Suffixes
    /\ section = <<>>
    /\ sectionOp = "none"
    /\ QuotesIdle
    /\ CriteriaIdle
    /\ CsvIdle
    /\ ValidateIdle
    /\ MainIdle

CallFormatCriteriaSection ==
    /\ sectionOp = "none"
    /\ section' = formatCriteriaSection(items, suffix)
    /\ sectionOp' = "called"
    /\ UNCHANGED <<items, suffix, quotesVars, criteriaVars, csvVars, validateVars, mainVars>>

NextSection == CallFormatCriteriaSection

SpecSection == InitSection /\ [][NextSection]_vars

(* FormatCriteria: a first call on a criteria map, then further calls on *)
(* the same map met in another iteration order, or on a map that differs *)
(* from it in the key that is not ok, ng or repeat.                       *)

InitCriteria ==
    /\ criteria \in CriteriaInputs
    /\ formatted = <<>>
    /\ lastOp = "none"
    /\ QuotesIdle
    /\ SectionIdle
    /\ CsvIdle
    /\ ValidateIdle
    /\ MainIdle

CallFormatCriteria ==
    /\ lastOp = "none"
    /\ formatted' = FormatCriteria(criteria)
    /\ lastOp' = "format"
    /\ UNCHANGED <<criteria, quotesVars, sectionVars, csvVars, validateVars, mainVars>>

\* the entries with the i-th one moved to the front
MoveToFront(entries, i) ==
    <<entries[i]>> \o SubSeq(entries, 1, i - 1) \o SubSeq(entries, i + 1, Len(entries))

CallOnReorderedMap ==
    /\ lastOp # "none"
    /\ \E i \in 2..Len(criteria.entries) :
          criteria' = MakeMap(MoveToFront(criteria.entries, i))
    /\ formatted' = FormatCriteria(criteria')
    /\ lastOp' = "reorder"
    /\ UNCHANGED <<quotesVars, sectionVars, csvVars, validateVars, mainVars>>

\* the entries whose key is not k
RECURSIVE WithoutKey(_, _)
WithoutKey(entries, k) ==
    IF Len(entries) = 0 THEN <<>>
    ELSE IF entries[1].key = k THEN WithoutKey(Tail(entries), k)
    ELSE <<entries[1]>> \o WithoutKey(Tail(entries), k)

CallWithOtherKeys ==
    /\ lastOp # "none"
    /\ LET rest == WithoutKey(criteria.entries, "hint")
       IN  \/ criteria' = MakeMap(rest)
           \/ \E list \in OtherLists :
                 /\ TotalItems(rest) + Len(list) <= MaxCritItems
                 /\ criteria' = MakeMap(Append(rest, [key |-> "hint", value |-> list]))
    /\ criteria' # criteria
    /\ formatted' = FormatCriteria(criteria')
    /\ lastOp' = "otherkeys"
    /\ UNCHANGED <<quotesVars, sectionVars, csvVars, validateVars, mainVars>>

NextCriteria ==
    \/ CallFormatCriteria
    \/ CallOnReorderedMap
    \/ CallWithOtherKeys

SpecCriteria == InitCriteria /\ [][NextCriteria]_vars

(* ConvertYAMLToCSV: a run on a YAML file, step by step.  The file is    *)
(* missing, malformed, or holds a list of records; the CSV file is absent *)
(* or left from an earlier run, and creating it succeeds or fails.  The   *)
(* csv.Writer is the list of the records written to it: it hands them to  *)
(* the file when it is flushed, and a write that fails leaves some of     *)
(* them in the file.                                                       *)

\* a QuizItem
QuizItem(question, answer, spell, comments, crit) ==
    [Question |-> question, Answer |-> answer, Spell |-> spell,
     Comments |-> comments, Criteria |-> crit]

Entry(k, list) == [key |-> k, value |-> list]

\* the criteria of the records: none, an empty map, ng alone, repeat and ok
\* with elements that carry brackets, an empty list beside another key
RecordCriteria ==
    {NilMap,
     MakeMap(<<>>),
     MakeMap(<<Entry("ng", <<<<"n">>>>)>>),
     MakeMap(<<Entry("repeat", <<<<"r", "]">>>>),
               Entry("ok", <<<<"[", "b", "]", "c">>, <<"a">>>>)>>),
     MakeMap(<<Entry("hint", <<<<"h">>>>), Entry("ok", <<>>)>>)}

RecordInputs ==
    {QuizItem(q, <<"A">>, s, <<>>, c) :
        q \in {<<"Q", "1">>, <<"Q", "2">>}, s \in {<<>>, <<"S">>}, c \in RecordCriteria}

YamlFiles ==
    {[state |-> "missing", records |-> <<>>],
     [state |-> "malformed", records |-> <<>>]}
    \cup {[state |-> "valid", records |-> r] : r \in ListsUpTo(RecordInputs, MaxRecords)}

\* the header record
Header == <<<<"question">>, <<"answer">>, <<"spell">>, <<"criteria">>>>

\* a record of a CSV file left from an earlier run
OldRow == <<<<"old">>>>

\* slip: the answer and the spell are written in each other's place
CsvRow_SpellBeforeAnswer(rec) ==
    LET criteriaText == IF ~rec.Criteria.nil
                        THEN FormatCriteria(rec.Criteria)
                        ELSE <<>>
    IN  <<rec.Question, rec.Spell, rec.Answer, criteriaText>>

\* the record written for one QuizItem
CsvRow(rec) ==
    LET criteriaText == IF ~rec.Criteria.nil
                        THEN FormatCriteria(rec.Criteria)
                        ELSE <<>>
    IN  <<rec.Question, rec.Answer, rec.Spell, criteriaText>>

\* the lists a list starts with
Prefixes(list) == {SubSeq(list, 1, k) : k \in 0..Len(list)}

Init ==
    /\ pc = "load"
    /\ yamlFile \in YamlFiles
    /\ canCreate \in BOOLEAN
    /\ data = <<>>
    /\ csvFile \in {[exists |-> FALSE, rows |-> <<>>],
                    [exists |-> TRUE, rows |-> <<OldRow>>]}
    /\ writer = <<>>
    /\ idx = 0
    /\ err = "nil"
    /\ QuotesIdle
    /\ SectionIdle
    /\ CriteriaIdle
    /\ ValidateIdle
    /\ MainIdle

\* LoadYAMLData, and the return on its error
LoadYAMLData ==
    /\ pc = "load"
    /\ \/ /\ yamlFile.state = "missing"
          /\ err' = "failed to open YAML file"
          /\ pc' = "done"
          /\ data' = data
       \/ /\ yamlFile.state = "malformed"
          /\ err' = "failed to parse YAML"
          /\ pc' = "done"
          /\ data' = data
       \/ /\ yamlFile.state = "valid"
          /\ data' = yamlFile.records
          /\ pc' = "create"
          /\ err' = err
    /\ UNCHANGED <<yamlFile, canCreate, csvFile, writer, idx>>
    /\ UNCHANGED <<quotesVars, sectionVars, criteriaVars, validateVars, mainVars>>

\* os.Create and csv.NewWriter, and the return on the error of os.Create
CreateCSVFile ==
    /\ pc = "create"
    /\ \/ /\ ~canCreate
          /\ err' = "failed to create CSV file"
          /\ pc' = "done"
          /\ csvFile' = csvFile
       \/ /\ canCreate
          /\ csvFile' = [exists |-> TRUE, rows |-> <<>>]
          /\ pc' = "header"
          /\ err' = err
    /\ UNCHANGED <<yamlFile, canCreate, data, writer, idx>>
    /\ UNCHANGED <<quotesVars, sectionVars, criteriaVars, validateVars, mainVars>>

\* writer.Write of the header; on its error the return, and the deferred
\* Flush and Close
WriteHeader ==
    /\ pc = "header"
    /\ \/ /\ writer' = Append(writer, Header)
          /\ idx' = 1
          /\ pc' = "rows"
          /\ UNCHANGED <<csvFile, err>>
       \/ /\ err' = "failed to write CSV header"
          /\ pc' = "done"
          /\ UNCHANGED <<csvFile, writer, idx>>
    /\ UNCHANGED <<yamlFile, canCreate, data>>
    /\ UNCHANGED <<quotesVars, sectionVars, criteriaVars, validateVars, mainVars>>

\* one turn of the loop over data: writer.Write of the record of data[idx];
\* on its error the return, and the deferred Flush and Close
WriteRow ==
    /\ pc = "rows"
    /\ idx <= Len(data)
    /\ \/ /\ writer' = Append(writer, CsvRow(data[idx]))
          /\ idx' = idx + 1
          /\ UNCHANGED <<pc, csvFile, err>>
       \/ /\ err' = "failed to write CSV row"
          /\ pc' = "done"
          /\ \E written \in Prefixes(writer) :
                csvFile' = [csvFile EXCEPT !.rows = written]
          /\ UNCHANGED <<writer, idx>>
    /\ UNCHANGED <<yamlFile, canCreate, data>>
    /\ UNCHANGED <<quotesVars, sectionVars, criteriaVars, validateVars, mainVars>>

\* the return of nil after the loop, and the deferred Flush and Close
ReturnNil ==
    /\ pc = "rows"
    /\ idx > Len(data)
    /\ csvFile' = [csvFile EXCEPT !.rows = writer]
    /\ pc' = "done"
    /\ UNCHANGED <<yamlFile, canCreate, data, writer, idx, err>>
    /\ UNCHANGED <<quotesVars, sectionVars, criteriaVars, validateVars, mainVars>>

Next ==
    \/ LoadYAMLData
    \/ CreateCSVFile
    \/ WriteHeader
    \/ WriteRow
    \/ ReturnNil

Spec == Init /\ [][Next]_vars

(* ValidateYAMLFile: runs over one YAML file.  Each run loads the file    *)
(* anew, and the range over a criteria map visits its keys in an order    *)
(* the Go runtime chooses for that run.                                    *)

\* the questions: text with a blank behind it, white space alone
ValQuestions == {<<"Q", " ">>, <<" ", "tab">>}

\* the answers: text, nothing
ValAnswers == {<<"A">>, <<>>}

\* the comments: none; a text, a tab and an empty comment
ValComments == {<<>>, <<<<"c">>, <<"tab">>, <<>>>>}

\* the criteria: none; blank elements under ok and ng; a blank element under
\* a key that is not valid; two keys that are not valid beside repeat
ValCriteria ==
    {NilMap,
     MakeMap(<<Entry("ok", <<<<"a">>, <<" ">>>>), Entry("ng", <<<<>>>>)>>),
     MakeMap(<<Entry("hint", <<<<" ">>>>)>>),
     MakeMap(<<Entry("hint", <<<<"h">>>>), Entry("extra", <<>>),
               Entry("repeat", <<<<"tab", " ">>, <<"r">>>>)>>)}

\* the comments and the criteria of one record: neither; comments beside
\* the criteria that hold ok, ng or repeat; no comments beside the criteria
\* of one key that is not valid
ValDetails ==
    {<<c, k>> \in ValComments \X ValCriteria :
        (c = <<>>) <=> (k.nil \/ Len(k.entries) = 1)}

ValRecordInputs ==
    {QuizItem(q, a, <<>>, d[1], d[2]) :
        q \in ValQuestions, a \in ValAnswers, d \in ValDetails}

ValYamlFiles ==
    {[state |-> "missing", records |-> <<>>],
     [state |-> "malformed", records |-> <<>>]}
    \cup {[state |-> "valid", records |-> r] : r \in ListsUpTo(ValRecordInputs, MaxRecords)}

\* the orders a range can visit the entries of a map in
RangeOrders(entries) ==
    LET n == Len(entries)
    IN  {[i \in 1..n |-> entries[p[i]]] :
            p \in {q \in [1..n -> 1..n] : \A i, j \in 1..n : i # j => q[i] # q[j]}}

\* what LoadYAMLData can return for the records of a file
RECURSIVE LoadedRecords(_)
LoadedRecords(records) ==
    IF Len(records) = 0 THEN {<<>>}
    ELSE {<<[records[1] EXCEPT !.Criteria.entries = e]>> \o rest :
             e \in RangeOrders(records[1].Criteria.entries),
             rest \in LoadedRecords(Tail(records))}

InitValidate ==
    /\ yamlFile \in ValYamlFiles
    /\ result = NewResult
    /\ runs = 0
    /\ pc = "idle"
    /\ canCreate = FALSE
    /\ data = <<>>
    /\ csvFile = [exists |-> FALSE, rows |-> <<>>]
    /\ writer = <<>>
    /\ idx = 0
    /\ err = "nil"
    /\ QuotesIdle
    /\ SectionIdle
    /\ CriteriaIdle
    /\ MainIdle

CallValidateYAMLFile ==
    /\ runs < MaxRuns
    /\ \E records \in LoadedRecords(yamlFile.records) :
          result' = ValidateYAMLFile(yamlFile, records)
    /\ runs' = runs + 1
    /\ UNCHANGED <<quotesVars, sectionVars, criteriaVars, csvVars, mainVars>>

NextValidate == CallValidateYAMLFile

SpecValidate == InitValidate /\ [][NextValidate]_vars

(* DetectOutputFormat: one call on an output path and a template path.   *)

\* the characters output paths are built from: the dot, the separator, the
\* letters of csv and a capital
PathChars == {".", "/", "c", "s", "v", "C"}

PathsUpTo(n) == UNION {[1..k -> PathChars] : k \in 0..n}

\* the template paths: none, a template file
TemplatePaths == {<<>>, <<"t", ".", "c", "s", "v">>}

InitDetect ==
    /\ outputFilePath \in PathsUpTo(MaxPathLen)
    /\ templateFilePath \in TemplatePaths
    /\ format = "none"
    /\ mpc = "idle"
    /\ flags = NoFlags
    /\ tmplFile = "missing"
    /\ outFile = [exists |-> FALSE, content |-> <<>>]
    /\ stdout = <<>>
    /\ stderr = <<>>
    /\ exitCode = 0
    /\ QuotesIdle
    /\ SectionIdle
    /\ CriteriaIdle
    /\ CsvIdle
    /\ ValidateIdle

CallDetectOutputFormat ==
    /\ format = "none"
    /\ format' = DetectOutputFormat(outputFilePath, templateFilePath)
    /\ UNCHANGED <<mpc, flags, tmplFile, outFile, outputFilePath, templateFilePath,
                   stdout, stderr, exitCode>>
    /\ UNCHANGED <<quotesVars, sectionVars, criteriaVars, csvVars, validateVars>>

NextDetect == CallDetectOutputFormat

SpecDetect == InitDetect /\ [][NextDetect]_vars

(* main, Convert and ConvertToTemplate: a run of the command-line tool,   *)
(* step by step.  flags is what flag.Parse makes of the command line;     *)
(* parsed is false when it rejects the command line.  The file at the     *)
(* output path is csvFile to ConvertYAMLToCSV and outFile (outputFile in  *)
(* the code) to ConvertToTemplate; a run opens it under one of the two.   *)
(* tmplFile is the file at the template path Convert is handed: missing,  *)
(* not a template, a template whose execution fails, or a template.       *)
(* stdout is the list of the lines printed, stderr the list of messages.  *)

\* a line of stderr
Line(text) == Message(0, text, "", 0)

UsageLine == Line("usage")

\* the built-in templates of -format html and -format markdown
HtmlTemplatePath == <<"templates/quiz_template.html">>

MarkdownTemplatePath == <<"templates/quiz_template.md">>

\* the input path of the command line
InputPath == <<"q", ".", "y">>

\* the output paths of the command line: none, .csv in both cases, .txt
OutputPaths ==
    {<<>>, <<"q", ".", "c", "s", "v">>, <<"q", ".", "C", "s", "V">>,
     <<"q", ".", "t", "x", "t">>}

\* the values of -format: the supported ones and one that is not
FormatValues == {"csv", "html", "markdown", "md", "xml"}

\* the command lines: one that flag.Parse rejects, and the settings of the
\* six flags
CommandLines ==
    {[NoFlags EXCEPT !.parsed = FALSE]}
    \cup [parsed : {TRUE}, help : BOOLEAN, input : {<<>>, InputPath},
          validate : BOOLEAN, output : OutputPaths, format : FormatValues,
          template : TemplatePaths]

\* the records of the input file: a complete one, one without an answer
MainRecords ==
    {QuizItem(<<"Q">>, <<"A">>, <<>>, <<>>, MakeMap(<<Entry("ok", <<<<"a">>>>)>>)),
     QuizItem(<<"Q">>, <<>>, <<"S">>, <<>>, NilMap)}

MainYamlFiles ==
    {[state |-> "missing", records |-> <<>>],
     [state |-> "malformed", records |-> <<>>]}
    \cup {[state |-> "valid", records |-> r] : r \in ListsUpTo(MainRecords, MaxRecords)}

TemplateFiles == {"missing", "malformed", "failing", "valid"}

\* what the execution of a template on the data writes
Output(tmpl, list, complete) ==
    [template |-> tmpl, items |-> list, complete |-> complete]

\* the content of an output file left from an earlier run
OldOutput == Output(<<>>, <<>>, TRUE)

InitMain ==
    /\ mpc = "start"
    /\ flags \in CommandLines
    /\ yamlFile \in MainYamlFiles
    /\ tmplFile \in TemplateFiles
    /\ canCreate \in BOOLEAN
    /\ \E old \in BOOLEAN :
          /\ csvFile = IF old THEN [exists |-> TRUE, rows |-> <<OldRow>>]
                       ELSE [exists |-> FALSE, rows |-> <<>>]
          /\ outFile = IF old THEN [exists |-> TRUE, content |-> <<OldOutput>>]
                       ELSE [exists |-> FALSE, content |-> <<>>]
    /\ pc = "idle"
    /\ data = <<>>
    /\ writer = <<>>
    /\ idx = 0
    /\ err = "nil"
    /\ outputFilePath = <<>>
    /\ templateFilePath = <<>>
    /\ format = "none"
    /\ stdout = <<>>
    /\ stderr = <<>>
    /\ exitCode = 0
    /\ QuotesIdle
    /\ SectionIdle
    /\ CriteriaIdle
    /\ ValidateIdle

\* flag.Parse: on a command line it rejects it prints the error and the
\* usage and exits with status 2
ParseFlags ==
    /\ mpc = "start"
    /\ IF ~flags.parsed
       THEN /\ stderr' = stderr \o <<Line("flag error"), UsageLine>>
            /\ exitCode' = 2
            /\ mpc' = "exited"
       ELSE /\ mpc' = "help"
            /\ UNCHANGED <<stderr, exitCode>>
    /\ UNCHANGED <<flags, tmplFile, outFile, outputFilePath, templateFilePath,
                   format, stdout>>
    /\ UNCHANGED <<quotesVars, sectionVars, criteriaVars, csvVars, validateVars>>

\* the help flag: the usage, and the return
CheckHelp ==
    /\ mpc = "help"
    /\ IF flags.help
       THEN /\ stderr' = Append(stderr, UsageLine)
            /\ mpc' = "exited"
       ELSE /\ mpc' = "input"
            /\ stderr' = stderr
    /\ UNCHANGED <<flags, tmplFile, outFile, outputFilePath, templateFilePath,
                   format, stdout, exitCode>>
    /\ UNCHANGED <<quotesVars, sectionVars, criteriaVars, csvVars, validateVars>>

\* the input file is required
CheckInput ==
    /\ mpc = "input"
    /\ IF flags.input = <<>>
       THEN /\ stderr' = stderr \o <<Line("input file is not specified"), UsageLine>>
            /\ exitCode' = 1
            /\ mpc' = "exited"
       ELSE /\ mpc' = "validate"
            /\ UNCHANGED <<stderr, exitCode>>
    /\ UNCHANGED <<flags, tmplFile, outFile, outputFilePath, templateFilePath,
                   format, stdout>>
    /\ UNCHANGED <<quotesVars, sectionVars, criteriaVars, csvVars, validateVars>>

\* the validate flag: ValidateYAMLFile, the report, and the return or the exit
ValidateOnly ==
    /\ mpc = "validate"
    /\ IF flags.validate
       THEN \E records \in LoadedRecords(yamlFile.records) :
               LET report == ValidateYAMLFile(yamlFile, records)
               IN  /\ result' = report
                   /\ runs' = runs + 1
                   /\ mpc' = "exited"
                   /\ IF report.IsValid
                      THEN /\ stdout' = stdout \o <<"validating", "validation succeeded">>
                           /\ UNCHANGED <<stderr, exitCode>>
                      ELSE /\ stdout' = stdout \o <<"validating", "validation failed">>
                           /\ stderr' = stderr \o report.Errors
                           /\ exitCode' = 1
       ELSE /\ mpc' = "output"
            /\ UNCHANGED <<result, runs, stdout, stderr, exitCode>>
    /\ UNCHANGED <<flags, tmplFile, outFile, outputFilePath, templateFilePath, format>>
    /\ UNCHANGED <<quotesVars, sectionVars, criteriaVars, csvVars>>

\* the output file is required in conversion mode
CheckOutput ==
    /\ mpc = "output"
    /\ IF flags.output = <<>>
       THEN /\ stderr' = stderr \o <<Line("output file is not specified"), UsageLine>>
            /\ exitCode' = 1
            /\ mpc' = "exited"
       ELSE /\ mpc' = "call"
            /\ UNCHANGED <<stderr, exitCode>>
    /\ UNCHANGED <<flags, tmplFile, outFile, outputFilePath, templateFilePath,
                   format, stdout>>
    /\ UNCHANGED <<quotesVars, sectionVars, criteriaVars, csvVars, validateVars>>

\* the template path main hands to Convert for a value of -format
FormatTemplatePath(value) ==
    CASE value = "csv" -> <<>>
      [] value = "html" -> HtmlTemplatePath
      [] value \in {"markdown", "md"} -> MarkdownTemplatePath

SupportedFormats == {"csv", "html", "markdown", "md"}

\* the call of Convert on the input path, the output path and a template path
EnterConvert(tmpl) ==
    /\ outputFilePath' = flags.output
    /\ templateFilePath' = tmpl
    /\ mpc' = "convert"
    /\ pc' = "detect"
    /\ UNCHANGED <<stderr, exitCode>>

\* the exit on a value of -format that is not supported
UnsupportedFormat ==
    /\ stderr' = stderr \o <<Line("unsupported format"), Line("supported formats"),
                             UsageLine>>
    /\ exitCode' = 1
    /\ mpc' = "exited"
    /\ UNCHANGED <<outputFilePath, templateFilePath, pc>>

\* slip: the switch on -format comes before the test of -template
CallConvert_FormatFirst ==
    /\ mpc = "call"
    /\ IF flags.format \notin SupportedFormats
       THEN UnsupportedFormat
       ELSE IF flags.template # <<>>
       THEN EnterConvert(flags.template)
       ELSE EnterConvert(FormatTemplatePath(flags.format))
    /\ UNCHANGED <<flags, tmplFile, outFile, format, stdout>>
    /\ UNCHANGED <<yamlFile, canCreate, data, csvFile, writer, idx, err>>
    /\ UNCHANGED <<quotesVars, sectionVars, criteriaVars, validateVars>>

\* main from the test of -template on: the call of Convert with the template
\* of the command line, or with the template path of the value of -format
CallConvert ==
    /\ mpc = "call"
    /\ IF flags.template # <<>>
       THEN EnterConvert(flags.template)
       ELSE IF flags.format \in SupportedFormats
       THEN EnterConvert(FormatTemplatePath(flags.format))
       ELSE UnsupportedFormat
    /\ UNCHANGED <<flags, tmplFile, outFile, format, stdout>>
    /\ UNCHANGED <<yamlFile, canCreate, data, csvFile, writer, idx, err>>
    /\ UNCHANGED <<quotesVars, sectionVars, criteriaVars, validateVars>>

TemplateRequired == "template file is required for non-CSV output"

\* Convert: the format, and the switch on it up to the first call
Convert ==
    /\ pc = "detect"
    /\ format' = DetectOutputFormat(outputFilePath, templateFilePath)
    /\ IF format' = FormatCSV
       THEN /\ pc' = "load"
            /\ err' = err
       ELSE IF templateFilePath = <<>>
       THEN /\ err' = TemplateRequired
            /\ pc' = "done"
       ELSE /\ pc' = "tload"
            /\ err' = err
    /\ UNCHANGED <<yamlFile, canCreate, data, csvFile, writer, idx>>
    /\ UNCHANGED <<mpc, flags, tmplFile, outFile, outputFilePath, templateFilePath,
                   stdout, stderr, exitCode>>
    /\ UNCHANGED <<quotesVars, sectionVars, criteriaVars, validateVars>>

\* LoadYAMLData in the template case of Convert, and the return on its error
ConvertLoadYAMLData ==
    /\ pc = "tload"
    /\ \/ /\ yamlFile.state = "missing"
          /\ err' = "failed to open YAML file"
          /\ pc' = "done"
          /\ data' = data
       \/ /\ yamlFile.state = "malformed"
          /\ err' = "failed to parse YAML"
          /\ pc' = "done"
          /\ data' = data
       \/ /\ yamlFile.state = "valid"
          /\ data' = yamlFile.records
          /\ pc' = "tread"
          /\ err' = err
    /\ UNCHANGED <<yamlFile, canCreate, csvFile, writer, idx>>
    /\ UNCHANGED <<quotesVars, sectionVars, criteriaVars, validateVars, mainVars>>

\* slip: the output file is created before the template is read
ReadTemplate_CreatesFirst ==
    /\ pc = "tread"
    /\ outFile' = IF canCreate THEN [exists |-> TRUE, content |-> <<>>] ELSE outFile
    /\ IF tmplFile = "missing"
       THEN /\ err' = "failed to read template file"
            /\ pc' = "done"
       ELSE /\ pc' = "tparse"
            /\ err' = err
    /\ UNCHANGED <<yamlFile, canCreate, data, csvFile, writer, idx>>
    /\ UNCHANGED <<mpc, flags, tmplFile, outputFilePath, templateFilePath,
                   format, stdout, stderr, exitCode>>
    /\ UNCHANGED <<quotesVars, sectionVars, criteriaVars, validateVars>>

\* ConvertToTemplate: os.ReadFile of the template, and the return on its error
ReadTemplate ==
    /\ pc = "tread"
    /\ IF tmplFile = "missing"
       THEN /\ err' = "failed to read template file"
            /\ pc' = "done"
       ELSE /\ pc' = "tparse"
            /\ err' = err
    /\ UNCHANGED <<yamlFile, canCreate, data, csvFile, writer, idx>>
    /\ UNCHANGED <<quotesVars, sectionVars, criteriaVars, validateVars, mainVars>>

\* ConvertToTemplate: Parse of the template, and the return on its error
ParseTemplate ==
    /\ pc = "tparse"
    /\ IF tmplFile = "malformed"
       THEN /\ err' = "failed to parse template"
            /\ pc' = "done"
       ELSE /\ pc' = "tcreate"
            /\ err' = err
    /\ UNCHANGED <<yamlFile, canCreate, data, csvFile, writer, idx>>
    /\ UNCHANGED <<quotesVars, sectionVars, criteriaVars, validateVars, mainVars>>

\* ConvertToTemplate: os.Create of the output file, and the return on its error
CreateOutputFile ==
    /\ pc = "tcreate"
    /\ IF ~canCreate
       THEN /\ err' = "failed to create output file"
            /\ pc' = "done"
            /\ outFile' = outFile
       ELSE /\ outFile' = [exists |-> TRUE, content |-> <<>>]
            /\ pc' = "texec"
            /\ err' = err
    /\ UNCHANGED <<yamlFile, canCreate, data, csvFile, writer, idx>>
    /\ UNCHANGED <<mpc, flags, tmplFile, outputFilePath, templateFilePath,
                   format, stdout, stderr, exitCode>>
    /\ UNCHANGED <<quotesVars, sectionVars, criteriaVars, validateVars>>

\* ConvertToTemplate: Execute of the template into the output file, the
\* return, and the deferred Close; an execution that fails leaves what it
\* wrote before the failure
ExecuteTemplate ==
    /\ pc = "texec"
    /\ IF tmplFile = "failing"
       THEN /\ err' = "failed to execute template"
            /\ outFile' = [outFile EXCEPT
                              !.content = <<Output(templateFilePath, data, FALSE)>>]
       ELSE /\ err' = err
            /\ outFile' = [outFile EXCEPT
                              !.content = <<Output(templateFilePath, data, TRUE)>>]
    /\ pc' = "done"
    /\ UNCHANGED <<yamlFile, canCreate, data, csvFile, writer, idx>>
    /\ UNCHANGED <<mpc, flags, tmplFile, outputFilePath, templateFilePath,
                   format, stdout, stderr, exitCode>>
    /\ UNCHANGED <<quotesVars, sectionVars, criteriaVars, validateVars>>

\* the completion line main prints after the call of Convert it made
Completion(fl) ==
    IF fl.template # <<>> THEN "template conversion complete"
    ELSE CASE fl.format = "csv" -> "CSV conversion complete"
           [] fl.format = "html" -> "HTML conversion complete"
           [] fl.format \in {"markdown", "md"} -> "Markdown conversion complete"

\* slip: the exit after the error line is missing
ConvertReturned_NoExit ==
    /\ mpc = "convert"
    /\ pc = "done"
    /\ stderr' = IF err # "nil" THEN Append(stderr, Line(err)) ELSE stderr
    /\ stdout' = Append(stdout, Completion(flags))
    /\ exitCode' = exitCode
    /\ mpc' = "exited"
    /\ UNCHANGED <<flags, tmplFile, outFile, outputFilePath, templateFilePath, format>>
    /\ UNCHANGED <<quotesVars, sectionVars, criteriaVars, csvVars, validateVars>>

\* main after Convert returned: the error line and the exit with status 1,
\* or the completion line
ConvertReturned ==
    /\ mpc = "convert"
    /\ pc = "done"
    /\ IF err # "nil"
       THEN /\ stderr' = Append(stderr, Line(err))
            /\ exitCode' = 1
            /\ stdout' = stdout
       ELSE /\ stdout' = Append(stdout, Completion(flags))
            /\ UNCHANGED <<stderr, exitCode>>
    /\ mpc' = "exited"
    /\ UNCHANGED <<flags, tmplFile, outFile, outputFilePath, templateFilePath, format>>
    /\ UNCHANGED <<quotesVars, sectionVars, criteriaVars, csvVars, validateVars>>

NextMain ==
    \/ ParseFlags
    \/ CheckHelp
    \/ CheckInput
    \/ ValidateOnly
    \/ CheckOutput
    \/ CallConvert
    \/ Convert
    \/ LoadYAMLData
    \/ CreateCSVFile
    \/ WriteHeader
    \/ WriteRow
    \/ ReturnNil
    \/ ConvertLoadYAMLData
    \/ ReadTemplate
    \/ ParseTemplate
    \/ CreateOutputFile
    \/ ExecuteTemplate
    \/ ConvertReturned

SpecMain == InitMain /\ [][NextMain]_vars

(* Properties of AddQuotesIfNeeded, checked under SpecQuotes.              *)

\* C1: a string that starts with the open bracket and contains a close
\* bracket anywhere (at the end or in the middle) is returned unchanged.
C1_BracketedUnchanged ==
    (calls >= 1 /\ HasPrefix(item, OpenBracket) /\ Contains(item, CloseBracket))
        => quoted = item

\* the close bracket sits in the middle and text follows it (the return of
\* lines 63-64)
C1_Witness ==
    /\ calls >= 1
    /\ HasPrefix(item, OpenBracket)
    /\ Contains(item, CloseBracket)
    /\ ~HasSuffix(item, CloseBracket)
    /\ quoted = item

\* C2: when exactly one bracket is missing only that one is added: an input
\* that starts with the open bracket and has no close bracket gets one close
\* bracket appended, an input that ends with the close bracket and does not
\* start with the open bracket gets one open bracket prepended.
C2_OnlyMissingBracketAdded ==
    calls >= 1 =>
        /\ (HasPrefix(item, OpenBracket) /\ ~Contains(item, CloseBracket))
              => quoted = item \o CloseBracket
        /\ (HasSuffix(item, CloseBracket) /\ ~HasPrefix(item, OpenBracket))
              => quoted = OpenBracket \o item

C2_Witness ==
    /\ calls >= 1
    /\ HasSuffix(item, CloseBracket)
    /\ ~HasPrefix(item, OpenBracket)
    /\ Len(item) >= 2
    /\ quoted = OpenBracket \o item

C4_Idempotent ==
    calls = 2 => requoted = quoted

C4_Witness ==
    /\ calls = 2
    /\ quoted # item
    /\ requoted = quoted

\* C5: (doc comment of AddQuotesIfNeeded) an input that contains a close
\* bracket anywhere but does not start with the open bracket gets only the
\* open bracket prepended, and both brackets are added only to an input that
\* contains neither bracket.
C5_DocComment ==
    calls >= 1 =>
        /\ (Contains(item, CloseBracket) /\ ~HasPrefix(item, OpenBracket))
              => quoted = OpenBracket \o item
        /\ (quoted = OpenBracket \o item \o CloseBracket)
              => (~Contains(item, OpenBracket) /\ ~Contains(item, CloseBracket))

(* Properties of formatCriteriaSection, checked under SpecSection.        *)

\* the elements of a list, each with its brackets, one after the other
RECURSIVE QuotedConcat(_)
QuotedConcat(list) ==
    IF Len(list) = 0 THEN <<>>
    ELSE QuotedConcat(SubSeq(list, 1, Len(list) - 1))
             \o AddQuotesIfNeeded(list[Len(list)])

\* C6: formatCriteriaSection returns the empty string for an empty list,
\* whatever the suffix; otherwise the elements with their brackets, in
\* their order, with nothing between them, followed by the suffix.
C6_SectionFormat ==
    sectionOp = "called" =>
        /\ items = <<>> => section = <<>>
        /\ items # <<>> => section = QuotedConcat(items) \o suffix

C6_Witness ==
    /\ sectionOp = "called"
    /\ Len(items) = 2
    /\ items[1] # items[2]
    /\ suffix = SuffixNg
    /\ section = QuotedConcat(items) \o suffix

(* Properties of FormatCriteria, checked under SpecCriteria.              *)

\* the section of key k with suffix sfx: empty for a missing or empty list
SectionOf(crit, k, sfx) ==
    IF \E i \in 1..Len(crit.entries) :
           crit.entries[i].key = k /\ crit.entries[i].value # <<>>
    THEN QuotedConcat(MapGet(crit, k)) \o sfx
    ELSE <<>>

\* two strings with the separator between them, when neither is empty
Glue(a, b) ==
    IF a = <<>> THEN b
    ELSE IF b = <<>> THEN a
    ELSE a \o Separator \o b

\* the number of separators in a string
RECURSIVE CountSeparators(_)
CountSeparators(s) ==
    IF Len(s) = 0 THEN 0
    ELSE (IF <<s[1]>> = Separator THEN 1 ELSE 0) + CountSeparators(Tail(s))

\* the number of non-empty sections of a criteria map
NumSections(crit) ==
    Cardinality({k \in {"ok", "ng", "repeat"} : SectionOf(crit, k, <<>>) # <<>>})

\* C7: FormatCriteria returns the sections of ok (no suffix), ng and repeat,
\* in that order, without the missing and the empty ones, joined by the
\* separator; the empty string when no section is left; and no leading,
\* trailing or doubled separator stands for a skipped section.
C7_CriteriaFormat ==
    lastOp # "none" =>
        /\ formatted = Glue(Glue(SectionOf(criteria, "ok", <<>>),
                                 SectionOf(criteria, "ng", SuffixNg)),
                            SectionOf(criteria, "repeat", SuffixRepeat))
        /\ NumSections(criteria) = 0 => formatted = <<>>
        /\ NumSections(criteria) > 0 =>
              CountSeparators(formatted) = NumSections(criteria) - 1
        /\ ~HasPrefix(formatted, Separator)
        /\ ~HasSuffix(formatted, Separator)
        /\ ~Contains(formatted, Separator \o Separator)

\* ok is present and empty, ng and repeat have elements
C7_Witness ==
    /\ lastOp = "format"
    /\ MapHas(criteria, "ok")
    /\ MapGet(criteria, "ok") = <<>>
    /\ MapGet(criteria, "ng") # <<>>
    /\ MapGet(criteria, "repeat") # <<>>
    /\ formatted = SectionOf(criteria, "ng", SuffixNg) \o Separator
                       \o SectionOf(criteria, "repeat", SuffixRepeat)

\* two maps hold the same lists under ok, ng and repeat
AgreeOnKnownKeys(c1, c2) ==
    \A k \in {"ok", "ng", "repeat"} :
        /\ MapHas(c1, k) = MapHas(c2, k)
        /\ MapGet(c1, k) = MapGet(c2, k)

\* C8: FormatCriteria ignores every key other than ok, ng and repeat: a call
\* on a map that agrees with the previous call's map on those three keys
\* returns what the previous call returned.
C8_OtherKeysIgnored ==
    [][(lastOp # "none" /\ AgreeOnKnownKeys(criteria, criteria'))
          => formatted' = formatted]_vars

C8_Witness ==
    /\ lastOp = "otherkeys"
    /\ MapGet(criteria, "hint") = <<<<"h">>>>
    /\ MapGet(criteria, "ok") # <<>>
    /\ formatted = SectionOf(criteria, "ok", <<>>)

\* two values hold the same map: the same entries in any order
SameMap(c1, c2) ==
    /\ c1.nil = c2.nil
    /\ {c1.entries[i] : i \in 1..Len(c1.entries)}
           = {c2.entries[i] : i \in 1..Len(c2.entries)}

\* the ok section, then the ng section, then the repeat section
SectionsInOrder ==
    LET okS == SectionOf(criteria, "ok", <<>>)
        ngS == SectionOf(criteria, "ng", SuffixNg)
        rpS == SectionOf(criteria, "repeat", SuffixRepeat)
    IN  /\ HasPrefix(formatted, okS)
        /\ HasSuffix(formatted, rpS)
        /\ \E i \in (Len(okS) + 1)..(Len(formatted) + 1) :
              /\ i + Len(ngS) - 1 <= Len(formatted) - Len(rpS)
              /\ SubSeq(formatted, i, i + Len(ngS) - 1) = ngS

\* C9: FormatCriteria does not depend on the iteration order of the map: a
\* call on the same map met in another order returns what the previous call
\* returned, and in every output the ok section comes before the ng section,
\* which comes before the repeat section.
C9_OrderIndependent ==
    /\ [](lastOp # "none" => SectionsInOrder)
    /\ [][(lastOp # "none" /\ SameMap(criteria, criteria'))
             => formatted' = formatted]_vars

\* the map is met with repeat first, then ng, then ok
C9_Witness ==
    /\ lastOp = "reorder"
    /\ Len(criteria.entries) >= 3
    /\ criteria.entries[1].key = "repeat"
    /\ criteria.entries[2].key = "ng"
    /\ criteria.entries[3].key = "ok"
    /\ \A i \in 1..3 : criteria.entries[i].value # <<>>
    /\ formatted = SectionOf(criteria, "ok", <<>>) \o Separator
                       \o SectionOf(criteria, "ng", SuffixNg) \o Separator
                       \o SectionOf(criteria, "repeat", SuffixRepeat)

(* Properties of ConvertYAMLToCSV, checked under Spec.                    *)

\* the criteria field of a record: empty without criteria, otherwise the
\* sections of ok, ng and repeat with the separator between them
CriteriaField(rec) ==
    IF rec.Criteria.nil THEN <<>>
    ELSE Glue(Glue(SectionOf(rec.Criteria, "ok", <<>>),
                   SectionOf(rec.Criteria, "ng", SuffixNg)),
              SectionOf(rec.Criteria, "repeat", SuffixRepeat))

\* C10: after a run of ConvertYAMLToCSV that loaded the records and returned
\* no error the CSV file holds the header, then one record of four fields
\* per QuizItem, in the order of the input: question, answer, spell and the
\* formatted criteria, empty for a QuizItem without criteria.
C10_CsvRows ==
    (pc = "done" /\ err = "nil") =>
        /\ yamlFile.state = "valid"
        /\ csvFile.exists
        /\ Len(csvFile.rows) = Len(yamlFile.records) + 1
        /\ csvFile.rows[1] = Header
        /\ \A i \in 1..Len(yamlFile.records) :
              LET rec == yamlFile.records[i]
              IN  csvFile.rows[i + 1] =
                      <<rec.Question, rec.Answer, rec.Spell, CriteriaField(rec)>>

\* two records, the first without criteria, the second with ng alone
C10_Witness ==
    /\ pc = "done"
    /\ err = "nil"
    /\ Len(yamlFile.records) = 2
    /\ yamlFile.records[1].Criteria.nil
    /\ yamlFile.records[2].Criteria = MakeMap(<<Entry("ng", <<<<"n">>>>)>>)
    /\ csvFile.rows[2][4] = <<>>
    /\ csvFile.rows[3][4] = <<"[", "n", "]">> \o SuffixNg

(* Properties of ValidateYAMLFile, checked under SpecValidate.            *)

\* a string is empty or holds white space alone
IsBlank(s) == \A n \in 1..Len(s) : s[n] \in WhiteSpace

\* the keys of a criteria map
KeysOf(crit) == {crit.entries[n].key : n \in 1..Len(crit.entries)}

\* what there is to report in the records: blank questions and answers,
\* blank elements of ok, ng and repeat, keys that are not valid and blank
\* comments
Occurrences(records) ==
    LET I == 1..Len(records)
    IN  {Message(i, "question", "", 0) : i \in {n \in I : IsBlank(records[n].Question)}}
        \cup {Message(i, "answer", "", 0) : i \in {n \in I : IsBlank(records[n].Answer)}}
        \cup UNION {UNION {{Message(i, "criteria", k, j - 1) :
                              j \in {n \in 1..Len(MapGet(records[i].Criteria, k)) :
                                        IsBlank(MapGet(records[i].Criteria, k)[n])}} :
                           k \in {"ok", "ng", "repeat"}} : i \in I}
        \cup UNION {{Message(i, "invalid criteria key", k, 0) :
                       k \in KeysOf(records[i].Criteria) \ {"ok", "ng", "repeat"}} : i \in I}
        \cup UNION {{Message(i, "comments", "", j - 1) :
                       j \in {n \in 1..Len(records[i].Comments) :
                                 IsBlank(records[i].Comments[n])}} : i \in I}

\* how often a message stands in a list of messages
TimesIn(errors, msg) == Cardinality({n \in 1..Len(errors) : errors[n] = msg})

\* C11: the validation never stops at the first issue: the report of a
\* loaded file holds exactly one message for each blank question, blank
\* answer, blank element of ok, ng and repeat, blank comment and key that is
\* not valid, of all records together, and nothing else but the message of
\* the empty file; IsValid is false when there is something to report.
C11_AllIssuesReported ==
    (runs >= 1 /\ yamlFile.state = "valid") =>
        LET occ == Occurrences(yamlFile.records)
        IN  /\ \A o \in occ : TimesIn(result.Errors, o) = 1
            /\ \A n \in 1..Len(result.Errors) :
                  result.Errors[n] \in occ \cup {MsgNoData}
            /\ Len(yamlFile.records) > 0 => Len(result.Errors) = Cardinality(occ)
            /\ Cardinality(occ) >= 1 => ~result.IsValid

\* a sole record with an empty answer and one key that is not valid
C11_Witness ==
    /\ runs >= 1
    /\ Len(yamlFile.records) = 1
    /\ yamlFile.records[1].Answer = <<>>
    /\ KeysOf(yamlFile.records[1].Criteria) = {"hint"}
    /\ ~result.IsValid
    /\ result.Errors = <<Message(1, "answer", "", 0),
                         Message(1, "invalid criteria key", "hint", 0)>>

\* C12 as stated: every blank element of a list under any key of a criteria
\* map is reported, also under a key that is not ok, ng or repeat.
C12_EveryCategory ==
    (runs >= 1 /\ yamlFile.state = "valid") =>
        \A i \in 1..Len(yamlFile.records) :
            \A k \in KeysOf(yamlFile.records[i].Criteria) :
                LET list == MapGet(yamlFile.records[i].Criteria, k)
                IN  \A j \in 1..Len(list) :
                        IsBlank(list[j]) =>
                            TimesIn(result.Errors, Message(i, "criteria", k, j - 1)) >= 1

\* C12 as amended: every blank element of the lists under ok, ng and repeat
\* is reported; a key that is not one of these is reported once, as a key
\* that is not valid, and the elements of its list are not looked at.
C12_KnownCategories ==
    (runs >= 1 /\ yamlFile.state = "valid") =>
        \A i \in 1..Len(yamlFile.records) :
            \A k \in KeysOf(yamlFile.records[i].Criteria) :
                LET list == MapGet(yamlFile.records[i].Criteria, k)
                IN  IF k \in {"ok", "ng", "repeat"}
                    THEN \A j \in 1..Len(list) :
                            TimesIn(result.Errors, Message(i, "criteria", k, j - 1))
                                = (IF IsBlank(list[j]) THEN 1 ELSE 0)
                    ELSE /\ TimesIn(result.Errors,
                                    Message(i, "invalid criteria key", k, 0)) = 1
                         /\ \A n \in 1..Len(result.Errors) :
                               ~(/\ result.Errors[n].index = i
                                 /\ result.Errors[n].field = "criteria"
                                 /\ result.Errors[n].key = k)

\* blank elements under ok and ng in the first record, a blank element
\* under another key in the second
C12_Witness ==
    /\ runs >= 1
    /\ Len(yamlFile.records) = 2
    /\ KeysOf(yamlFile.records[1].Criteria) = {"ok", "ng"}
    /\ MapGet(yamlFile.records[2].Criteria, "hint") = <<<<" ">>>>
    /\ TimesIn(result.Errors, Message(1, "criteria", "ok", 1)) = 1
    /\ TimesIn(result.Errors, Message(1, "criteria", "ng", 0)) = 1
    /\ TimesIn(result.Errors, Message(2, "invalid criteria key", "hint", 0)) = 1
    /\ TimesIn(result.Errors, Message(2, "criteria", "hint", 0)) = 0

\* C13: for a loaded file without records the report is not valid, counts
\* no item and holds the message of the empty file and no other.
C13_EmptyCollection ==
    (runs >= 1 /\ yamlFile.state = "valid" /\ yamlFile.records = <<>>) =>
        /\ ~result.IsValid
        /\ result.Items = 0
        /\ result.Errors = <<MsgNoData>>

C13_Witness ==
    /\ runs >= 1
    /\ yamlFile.state = "valid"
    /\ yamlFile.records = <<>>
    /\ result.Errors = <<MsgNoData>>
    /\ ~result.IsValid

\* the path ends in a dot and the letters c, s, v, each in either case
EndsInDotCsv(path) ==
    LET n == Len(path)
    IN  /\ n >= 4
        /\ path[n - 3] = "."
        /\ path[n - 2] \in {"c", "C"}
        /\ path[n - 1] \in {"s", "S"}
        /\ path[n] \in {"v", "V"}

\* C14: DetectOutputFormat returns the template format whenever the template
\* file is not empty, whatever the extension of the output file; with an
\* empty template file it returns CSV exactly when the extension of the
\* output file is .csv in any case of letters, and the template format for
\* every other extension and for none.
C14_DetectOutputFormat ==
    format # "none" =>
        /\ templateFilePath # <<>> => format = FormatTemplate
        /\ templateFilePath = <<>> =>
              /\ EndsInDotCsv(outputFilePath) <=> format = FormatCSV
              /\ ~EndsInDotCsv(outputFilePath) <=> format = FormatTemplate

\* a call without a template on a path whose extension is .csv with a capital
\* in it, answered CSV
C14_Witness ==
    /\ format = FormatCSV
    /\ templateFilePath = <<>>
    /\ Ext(outputFilePath) # CsvExt


\* the run of main is over
Exited == mpc = "exited"

\* the command line asks for a conversion: it is accepted, without -help and
\* -validate, with an input and an output path
ConversionMode ==
    /\ flags.parsed
    /\ ~flags.help
    /\ flags.input # <<>>
    /\ ~flags.validate
    /\ flags.output # <<>>

\* the error of a template conversion, from the files alone
TemplateError(yaml, tmpl, creatable) ==
    IF yaml.state = "missing" THEN "failed to open YAML file"
    ELSE IF yaml.state = "malformed" THEN "failed to parse YAML"
    ELSE IF tmpl = "missing" THEN "failed to read template file"
    ELSE IF tmpl = "malformed" THEN "failed to parse template"
    ELSE IF ~creatable THEN "failed to create output file"
    ELSE IF tmpl = "failing" THEN "failed to execute template"
    ELSE "nil"

\* C15: a run in conversion mode with a template path on the command line
\* converts with that template, and what it prints, its exit status and
\* what it leaves in the output file follow from the template path and the
\* files alone, whatever the value of -format and the output path; the
\* unsupported-format error is not reported.
C15_TemplatePrecedence ==
    (Exited /\ ConversionMode /\ flags.template # <<>>) =>
        LET e == TemplateError(yamlFile, tmplFile, canCreate)
        IN  /\ format = FormatTemplate
            /\ templateFilePath = flags.template
            /\ \A n \in 1..Len(stderr) : stderr[n] # Line("unsupported format")
            /\ err = e
            /\ e = "nil" =>
                 /\ stdout = <<"template conversion complete">>
                 /\ stderr = <<>>
                 /\ exitCode = 0
            /\ e # "nil" =>
                 /\ stdout = <<>>
                 /\ stderr = <<Line(e)>>
                 /\ exitCode = 1
            /\ e \in {"nil", "failed to execute template"} =>
                 outFile = [exists |-> TRUE,
                            content |-> <<Output(flags.template, yamlFile.records,
                                                 e = "nil")>>]
            /\ e \notin {"nil", "failed to execute template"} =>
                 outFile \in {[exists |-> FALSE, content |-> <<>>],
                              [exists |-> TRUE, content |-> <<OldOutput>>]}
            /\ writer = <<>>
            /\ csvFile.rows \in {<<>>, <<OldRow>>}

\* a finished template conversion of a run with a value of -format that is
\* not supported and an output path that ends in .csv
C15_Witness ==
    /\ Exited
    /\ ConversionMode
    /\ flags.template # <<>>
    /\ flags.format = "xml"
    /\ Ext(flags.output) = CsvExt
    /\ stdout = <<"template conversion complete">>
    /\ Len(yamlFile.records) > 0

\* the errors of the writes of ConvertYAMLToCSV
WriteErrors == {"failed to write CSV header", "failed to write CSV row"}

\* C16: a run in conversion mode with -format csv and no template converts
\* to CSV whatever the output path: Convert takes the CSV case, and when the
\* input is a list of records, the output file can be created and no write
\* fails, the run prints the CSV completion line, exits with status 0 and
\* leaves the header and a record for each input record in the output file.
C16_CsvWhateverExtension ==
    (Exited /\ ConversionMode /\ flags.template = <<>> /\ flags.format = "csv") =>
        /\ format = FormatCSV
        /\ (yamlFile.state = "valid" /\ canCreate /\ err \notin WriteErrors) =>
              /\ stdout = <<"CSV conversion complete">>
              /\ exitCode = 0
              /\ csvFile = [exists |-> TRUE,
                            rows |-> <<Header>> \o
                                     [n \in 1..Len(yamlFile.records) |->
                                         CsvRow(yamlFile.records[n])]]

\* the completion lines
Completions ==
    {"validation succeeded", "template conversion complete",
     "CSV conversion complete", "HTML conversion complete",
     "Markdown conversion complete"}

Completed == \E n \in 1..Len(stdout) : stdout[n] \in Completions

\* the run reported an error: stderr holds a line that is not the usage
Failing == \E n \in 1..Len(stderr) : stderr[n] # UsageLine

\* the command line is rejected by flag.Parse
Rejected == ~flags.parsed

\* the five failures of a run whose command line is accepted
MissingInput == flags.parsed /\ ~flags.help /\ flags.input = <<>>

InvalidReport ==
    /\ flags.parsed
    /\ ~flags.help
    /\ flags.input # <<>>
    /\ flags.validate
    /\ ~result.IsValid

MissingOutput ==
    /\ flags.parsed
    /\ ~flags.help
    /\ flags.input # <<>>
    /\ ~flags.validate
    /\ flags.output = <<>>

UnsupportedFormatRun ==
    /\ ConversionMode
    /\ flags.template = <<>>
    /\ flags.format \notin SupportedFormats

ConvertError == ConversionMode /\ pc = "done" /\ err # "nil"

\* a completion line follows a Convert that returned nil or a valid report
CompletionEarned ==
    Completed =>
        \/ ConversionMode /\ pc = "done" /\ err = "nil"
        \/ /\ flags.parsed /\ ~flags.help /\ flags.input # <<>> /\ flags.validate
           /\ runs = 1
           /\ result.IsValid

\* C17 as stated: every run that reports an error exits with status 1 and
\* prints no completion line, and a completion line is printed only after
\* Convert returned no error or the report was valid.
C17_FailingExitsOne ==
    Exited =>
        /\ Failing => (exitCode = 1 /\ ~Completed)
        /\ CompletionEarned

\* C17, corrected: a run whose command line flag.Parse rejects exits with
\* status 2; a run with a missing input, a missing output in conversion
\* mode, an unsupported format, an error returned by Convert or an invalid
\* report exits with status 1; these are all the runs that report an error,
\* none of them prints a completion line, and a completion line is printed
\* only after Convert returned no error or the report was valid.
C17_FailingExits ==
    Exited =>
        /\ Rejected => (exitCode = 2 /\ ~Completed)
        /\ (MissingInput \/ InvalidReport \/ MissingOutput
               \/ UnsupportedFormatRun \/ ConvertError)
              => (exitCode = 1 /\ ~Completed)
        /\ Failing => (Rejected \/ MissingInput \/ InvalidReport \/ MissingOutput
                          \/ UnsupportedFormatRun \/ ConvertError)
        /\ exitCode # 0 => Failing
        /\ CompletionEarned

\* a run that exited after Convert returned the error of an execution of the
\* template that failed, the output file already written to
C17_Witness ==
    /\ Exited
    /\ ConvertError
    /\ err = "failed to execute template"
    /\ outFile.content # <<>>
    /\ exitCode = 1

\* C18: a step changes the output file only when the YAML file is a list of
\* records that has been loaded and, in a template conversion, the template
\* file can be read and parsed; the 'template file is required' error is
\* returned with no YAML loaded and the output file as it was.
C18_OutputAfterInputs ==
    /\ [][/\ csvFile' # csvFile =>
               /\ yamlFile.state = "valid"
               /\ data = yamlFile.records
               /\ pc \in {"create", "header", "rows"}
          /\ outFile' # outFile =>
               /\ yamlFile.state = "valid"
               /\ data = yamlFile.records
               /\ tmplFile \in {"failing", "valid"}
               /\ pc \in {"tcreate", "texec"}
          /\ err' # err =>
               (err' \notin WriteErrors \cup {"failed to execute template"}
                   => (csvFile' = csvFile /\ outFile' = outFile))
          /\ (err' = TemplateRequired /\ err # TemplateRequired) =>
               (pc = "detect" /\ UNCHANGED <<data, csvFile, outFile>>)]_vars
    /\ [](err = TemplateRequired => (data = <<>> /\ writer = <<>>))
    /\ [](err \in {"failed to open YAML file", "failed to parse YAML",
                   "failed to read template file", "failed to parse template",
                   TemplateRequired}
             => /\ csvFile \in {[exists |-> FALSE, rows |-> <<>>],
                                [exists |-> TRUE, rows |-> <<OldRow>>]}
                /\ outFile \in {[exists |-> FALSE, content |-> <<>>],
                                [exists |-> TRUE, content |-> <<OldOutput>>]})

\* ConvertToTemplate returned the error of a template that does not parse,
\* the YAML being a list of records and the output file creatable but absent
C18_Witness ==
    /\ pc = "done"
    /\ err = "failed to parse template"
    /\ Len(yamlFile.records) > 0
    /\ canCreate
    /\ ~outFile.exists


\* the place of a message in the order of a record's messages
Rank(msg) ==
    IF msg.field = "question" THEN 1
    ELSE IF msg.field = "answer" THEN 2
    ELSE IF msg.field = "criteria" /\ msg.key = "ok" THEN 3
    ELSE IF msg.field = "criteria" /\ msg.key = "ng" THEN 4
    ELSE IF msg.field = "criteria" THEN 5
    ELSE IF msg.field = "invalid criteria key" THEN 6
    ELSE 7

\* the messages stand in the order of the records and, within a record, of
\* question, answer, ok, ng, repeat, keys that are not valid, comments
InReportOrder(errors) ==
    \A m, n \in 1..Len(errors) :
        m < n =>
            \/ errors[m].index < errors[n].index
            \/ /\ errors[m].index = errors[n].index
               /\ Rank(errors[m]) < Rank(errors[n])
            \/ /\ errors[m].index = errors[n].index
               /\ Rank(errors[m]) = Rank(errors[n])
               /\ \/ errors[m].j < errors[n].j
                  \/ Rank(errors[m]) = 6

\* C19: the list of messages is a function of the records: a later run over
\* the same file returns the messages of the run before it, in the same
\* order, and the order is that of the records and of the fields, also for
\* a record with two or more keys that are not valid.
C19_DeterministicReport ==
    /\ [](runs >= 1 => InReportOrder(result.Errors))
    /\ [][runs >= 1 => result' = result]_vars

\* C20: on every return of ValidateYAMLFile IsValid says that Errors is
\* empty, and Items is the number of the loaded records, 0 for a file that
\* is missing or cannot be parsed.
C20_ReportConsistent ==
    runs >= 1 =>
        /\ result.IsValid = (result.Errors = <<>>)
        /\ result.Items = (IF yamlFile.state = "valid" THEN Len(yamlFile.records) ELSE 0)

\* two records, the first clean, the second with messages
C20_Witness ==
    /\ runs >= 1
    /\ Len(yamlFile.records) = 2
    /\ Occurrences(<<yamlFile.records[1]>>) = {}
    /\ Len(result.Errors) >= 2
    /\ ~result.IsValid
    /\ result.Items = 2

(* A further property of AddQuotesIfNeeded, checked under SpecQuotes.     *)

\* C21: the result of AddQuotesIfNeeded is the input, the input with a
\* close bracket appended, the input with an open bracket prepended, or the
\* input with both; it starts with the open bracket and contains a close
\* bracket.
C21_ResultShape ==
    calls >= 1 =>
        /\ quoted \in {item, item \o CloseBracket, OpenBracket \o item,
                        OpenBracket \o item \o CloseBracket}
        /\ HasPrefix(quoted, OpenBracket)
        /\ Contains(quoted, CloseBracket)

\* a result that does not end with the close bracket: the input starts with
\* the open bracket and text follows its close bracket
C21_Witness ==
    /\ calls >= 1
    /\ ~HasSuffix(quoted, CloseBracket)
    /\ Len(quoted) >= 3

====
